---- MODULE Spec2Model ----
(***************************************************************************)
(* The TCP scheme of the kernel (kernel/network/schemes/tcp.rs): the       *)
(* segment codec, the connection resource (read, write, dup, sync, drop),  *)
(* the client and server handshakes and the scheme's open, over an         *)
(* underlying IP resource whose reads, writes and opens are the            *)
(* environment's choices.                                                  *)
(***************************************************************************)
EXTENDS Integers, Sequences, FiniteSets, TLC

\* ---------------------------------------------------------------- bounds
MaxHandles == 2
MaxCalls == 2

\* ------------------------------------------------------- program constants
TCP_FIN == 1
TCP_SYN == 2
TCP_RST == 4
TCP_PSH == 8
TCP_ACK == 16
HeaderSize == 20
U16 == 65536
LenMask == 61440

\* ------------------------------------------------------------ bit helpers
RECURSIVE BitAnd(_, _)
BitAnd(a, b) ==
    IF a = 0 \/ b = 0 THEN 0
    ELSE (a % 2) * (b % 2) + 2 * BitAnd(a \div 2, b \div 2)

RECURSIVE BitOr(_, _)
BitOr(a, b) ==
    IF a = 0 THEN b
    ELSE IF b = 0 THEN a
    ELSE (IF a % 2 = 1 \/ b % 2 = 1 THEN 1 ELSE 0) + 2 * BitOr(a \div 2, b \div 2)

Min(a, b) == IF a < b THEN a ELSE b

\* A u32 is held as its two 16-bit halves <<high, low>>, so that the counters
\* keep their 32-bit width.
ToU32(n) == <<(n \div U16) % U16, n % U16>>
MaxU32 == <<U16 - 1, U16 - 1>>

\* mutant: the sum stops at 2^32 - 1
AddU32_Saturating(a, b) ==
    LET lo == a[2] + b[2]
        hi == a[1] + b[1] + (lo \div U16)
    IN  IF hi >= U16 THEN MaxU32 ELSE <<hi, lo % U16>>

\* u32 addition as the build performs it: wrapping at 2^32 (`+` and `+=` of a
\* build without overflow checks, which is what an optimised build of the
\* kernel is)
AddU32(a, b) ==
    LET lo == a[2] + b[2]
        hi == a[1] + b[1] + (lo \div U16)
    IN  <<hi % U16, lo % U16>>

\* the three flag bits every filter of the scheme looks at
FlagMask == BitOr(TCP_PSH, BitOr(TCP_SYN, TCP_ACK))

\* ------------------------------------------------------------ input sets
TenBytes == <<1, 2, 3, 4, 5, 6, 7, 8, 9, 10>>
\* the buffers a caller writes, and the payloads the peer sends
Buffers == {<<>>, <<65>>, TenBytes}

PeerAddrs == {"203.0.113.5"}
\* the references of the urls handed to open
Urls ==
    { "203.0.113.5:80", "203.0.113.5:80/x", "203.0.113.5:http", "203.0.113.5/x",
      "/32768", "/4000", "/http", "203.0.113.5", "" }
ConnectPorts == {80}
PeerPorts == {80, 81}
HostPorts == {32768}
ListenPorts == {32768}
OtherPorts == {4000}
InitSeqs == {ToU32(100)}
IoErrors == {"EIO", "EBADF"}
Caps == {1, 16}
\* the capacities of the buffers handed to path
PathCaps == {4, 64}

\* (sequence, ack_num) of the datagrams the peer sends
SeqAcks == {<<ToU32(100), ToU32(110)>>, <<MaxU32, ToU32(100)>>}

\* the low flag bits of the datagrams the peer sends: without and with PSH
PlainFlagBits ==
    { TCP_SYN, BitOr(TCP_SYN, TCP_ACK), TCP_ACK, TCP_RST, BitOr(TCP_FIN, TCP_ACK),
      BitOr(TCP_RST, BitOr(TCP_SYN, TCP_ACK)) }
PushFlagBits ==
    { BitOr(TCP_PSH, TCP_ACK), BitOr(TCP_FIN, BitOr(TCP_PSH, TCP_ACK)) }

\* a datagram of fewer than 20 bytes: no header can be read from it
ShortDatagram ==
    [len |-> 8, src |-> 0, dst |-> 0, sequence |-> ToU32(0), ack_num |-> ToU32(0),
     flags |-> 0, body |-> <<>>]

\* the longest datagram no header can be read from: 19 bytes
LongestShortDatagram == [ShortDatagram EXCEPT !.len = HeaderSize - 1]

\* (header-length nibble, bytes after the fixed header) of the datagrams read:
\* nibble 5 is a 20-byte header, 6 has 4 option bytes, 4 is below the fixed header
PlainLenBodies == {<<5, <<>>>>, <<4, <<>>>>}
PushLenBodies == {<<5, b>> : b \in Buffers} \cup {<<6, TenBytes>>, <<6, <<>>>>}

Datagram(s, d, qa, f, lb) ==
    [len |-> HeaderSize + Len(lb[2]), src |-> s, dst |-> d, sequence |-> qa[1],
     ack_num |-> qa[2], flags |-> lb[1] * 4096 + f, body |-> lb[2]]

\* the datagrams the IP resource delivers: too short; for the local port, from
\* either peer port; and for another port, with a header length of 20 and of 16
Datagrams ==
    {ShortDatagram, LongestShortDatagram} \cup
    { Datagram(s, d, qa, f, lb) :
        s \in PeerPorts, d \in HostPorts \cup ListenPorts, qa \in SeqAcks,
        f \in PlainFlagBits, lb \in PlainLenBodies } \cup
    { Datagram(s, d, qa, f, lb) :
        s \in PeerPorts, d \in HostPorts \cup ListenPorts, qa \in SeqAcks,
        f \in PushFlagBits, lb \in PushLenBodies } \cup
    { Datagram(s, d, <<ToU32(100), ToU32(110)>>, f, <<5, <<65>>>>) :
        s \in ConnectPorts, d \in OtherPorts, f \in {TCP_SYN, BitOr(TCP_SYN, TCP_ACK), TCP_ACK,
                                   BitOr(TCP_PSH, TCP_ACK)} } \cup
    { Datagram(s, d, <<ToU32(100), ToU32(110)>>, TCP_ACK, <<4, <<>>>>) :
        s \in ConnectPorts, d \in OtherPorts }

\* results of the IP resource's calls
Ok(v) == [tag |-> "Ok", val |-> v, errno |-> "none"]
Err(e) == [tag |-> "Err", val |-> 0, errno |-> e]
IoFailures == {Err(e) : e \in IoErrors}

\* ------------------------------------------------------------------ codec
\* header_len as from_bytes computes it: (flags & 0xF000) >> 10
header_len(flags) == BitAnd(flags, LenMask) \div 1024

SubSeqFrom(s, k) == SubSeq(s, k + 1, Len(s))

\* mutant: a header is read from 8 bytes already
from_bytes_EightBytes(d) ==
    IF d.len >= 8
    THEN LET hl == header_len(d.flags) IN
         IF hl < HeaderSize \/ hl > d.len
         THEN [tag |-> "Panic", header |-> ShortDatagram, options |-> <<>>, data |-> <<>>]
         ELSE [tag |-> "Some", header |-> d,
               options |-> SubSeq(d.body, 1, hl - HeaderSize),
               data |-> SubSeqFrom(d.body, hl - HeaderSize)]
    ELSE [tag |-> "None", header |-> ShortDatagram, options |-> <<>>, data |-> <<>>]

\* mutant: the option bytes are not kept
from_bytes_NoOptions(d) ==
    IF d.len >= HeaderSize
    THEN LET hl == header_len(d.flags) IN
         IF hl < HeaderSize \/ hl > d.len
         THEN [tag |-> "Panic", header |-> ShortDatagram, options |-> <<>>, data |-> <<>>]
         ELSE [tag |-> "Some", header |-> d, options |-> <<>>,
               data |-> SubSeqFrom(d.body, hl - HeaderSize)]
    ELSE [tag |-> "None", header |-> ShortDatagram, options |-> <<>>, data |-> <<>>]

\* mutant: the payload is taken from the end of the fixed header
from_bytes_DataAfterFixedHeader(d) ==
    IF d.len >= HeaderSize
    THEN LET hl == header_len(d.flags) IN
         IF hl < HeaderSize \/ hl > d.len
         THEN [tag |-> "Panic", header |-> ShortDatagram, options |-> <<>>, data |-> <<>>]
         ELSE [tag |-> "Some", header |-> d,
               options |-> SubSeq(d.body, 1, hl - HeaderSize),
               data |-> d.body]
    ELSE [tag |-> "None", header |-> ShortDatagram, options |-> <<>>, data |-> <<>>]

\* mutant: a header length out of range gives None
from_bytes_BadLengthNone(d) ==
    IF d.len >= HeaderSize
    THEN LET hl == header_len(d.flags) IN
         IF hl < HeaderSize \/ hl > d.len
         THEN [tag |-> "None", header |-> ShortDatagram, options |-> <<>>, data |-> <<>>]
         ELSE [tag |-> "Some", header |-> d,
               options |-> SubSeq(d.body, 1, hl - HeaderSize),
               data |-> SubSeqFrom(d.body, hl - HeaderSize)]
    ELSE [tag |-> "None", header |-> ShortDatagram, options |-> <<>>, data |-> <<>>]

\* Tcp::from_bytes: None for fewer than 20 bytes; the two slices
\* bytes[20..header_len] and bytes[header_len..len] panic when header_len is
\* below 20 or beyond the buffer; otherwise the header with options and data.
from_bytes(d) ==
    IF d.len >= HeaderSize
    THEN LET hl == header_len(d.flags) IN
         IF hl < HeaderSize \/ hl > d.len
         THEN [tag |-> "Panic", header |-> ShortDatagram, options |-> <<>>, data |-> <<>>]
         ELSE [tag |-> "Some", header |-> d,
               options |-> SubSeq(d.body, 1, hl - HeaderSize),
               data |-> SubSeqFrom(d.body, hl - HeaderSize)]
    ELSE [tag |-> "None", header |-> ShortDatagram, options |-> <<>>, data |-> <<>>]

\* Tcp::to_bytes: the 20 header bytes, then options, then data
to_bytes(tcp) ==
    [len |-> HeaderSize + Len(tcp.options) + Len(tcp.data),
     src |-> tcp.header.src, dst |-> tcp.header.dst,
     sequence |-> tcp.header.sequence, ack_num |-> tcp.header.ack_num,
     flags |-> tcp.header.flags, body |-> tcp.options \o tcp.data]

\* mutant: every segment built carries RST as well
OutFlags_WithReset(bits) == BitOr(BitOr(BitAnd(HeaderSize * 1024, LenMask), bits), TCP_RST)

\* the flags field of every segment the scheme builds:
\* ((size_of::<TcpHeader>() << 10) & 0xF000) | bits
OutFlags(bits) == BitOr(BitAnd(HeaderSize * 1024, LenMask), bits)

\* ---------------------------------------------------------------- strings
\* the first position of the character ch in s at or after k; Len(s) + 1 if none
RECURSIVE Find(_, _, _)
Find(s, ch, k) ==
    IF k > Len(s) THEN Len(s) + 1
    ELSE IF SubSeq(s, k, k) = ch THEN k
    ELSE Find(s, ch, k + 1)

\* s.split(ch).next().unwrap_or(""): the text before the first ch
SplitFirst(s, ch) == SubSeq(s, 1, Find(s, ch, 1) - 1)

\* the second next().unwrap_or("") of the same split: the text between the
\* first ch and the second, "" when s holds no ch
SplitSecond(s, ch) ==
    LET i == Find(s, ch, 1) IN
    IF i > Len(s) THEN "" ELSE SubSeq(s, i + 1, Find(s, ch, i + 1) - 1)

DecimalDigits == "0123456789"
DigitChar(d) == SubSeq(DecimalDigits, d + 1, d + 1)
IsDigit(ch) == \E d \in 0 .. 9 : DigitChar(d) = ch
DigitValue(ch) == CHOOSE d \in 0 .. 9 : DigitChar(d) = ch

\* str::parse::<u16>(): the value of a non-empty string of decimal digits that
\* fits 16 bits, -1 for the Err of every other string
RECURSIVE ParseFrom(_, _, _)
ParseFrom(s, k, acc) ==
    IF k > Len(s) THEN acc
    ELSE IF ~IsDigit(SubSeq(s, k, k)) THEN -1
    ELSE LET v == acc * 10 + DigitValue(SubSeq(s, k, k)) IN
         IF v >= U16 THEN -1 ELSE ParseFrom(s, k + 1, v)

parse_u16(s) == IF Len(s) = 0 THEN -1 ELSE ParseFrom(s, 1, 0)

\* port.parse::<u16>().unwrap_or(0)
parse_port_or_zero(s) == IF parse_u16(s) < 0 THEN 0 ELSE parse_u16(s)

\* format!("{}", n) of an unsigned number
RECURSIVE Decimal(_)
Decimal(n) == IF n < 10 THEN DigitChar(n) ELSE Decimal(n \div 10) \o DigitChar(n % 10)

\* &string[from..to]: the bytes from..to of a string; the slice panics when
\* from > to or to > string.len()
StrSlice(s, from, to) ==
    IF from > to \/ to > Len(s)
    THEN [tag |-> "Panic", val |-> ""]
    ELSE [tag |-> "Ok", val |-> SubSeq(s, from + 1, to)]

\* the loop of parse_port from the character of index n on: <<a, b>> at its
\* end. A digit adds one to b, ':' sets a to n + 1, any other character ends it.
RECURSIVE parse_port_loop(_, _, _, _)
parse_port_loop(s, n, a, b) ==
    IF n >= Len(s) THEN <<a, b>>
    ELSE LET c == SubSeq(s, n + 1, n + 1) IN
         IF IsDigit(c) THEN parse_port_loop(s, n + 1, a, b + 1)
         ELSE IF c = ":" THEN parse_port_loop(s, n + 1, n + 1, b)
         ELSE <<a, b>>

\* parse_port: &string[a..b + 1]
parse_port(string) ==
    LET ab == parse_port_loop(string, 0, 0, 0) IN StrSlice(string, ab[1], ab[2] + 1)

\* the loop of parse_host from the character of index n on: b at its end.
\* ':' and '/' end it, any other character adds one to b.
RECURSIVE parse_host_loop(_, _, _)
parse_host_loop(s, n, b) ==
    IF n >= Len(s) THEN b
    ELSE LET c == SubSeq(s, n + 1, n + 1) IN
         IF c = ":" \/ c = "/" THEN b
         ELSE parse_host_loop(s, n + 1, b + 1)

\* parse_host: &string[..b + 1]
parse_host(string) == StrSlice(string, 0, parse_host_loop(string, 0, 0) + 1)

\* str::as_bytes of the characters a path is made of
Ascii(ch) ==
    CASE IsDigit(ch) -> 48 + DigitValue(ch)
      [] ch = "." -> 46
      [] ch = "/" -> 47
      [] ch = ":" -> 58
      [] ch = "c" -> 99
      [] ch = "d" -> 100
      [] ch = "p" -> 112
      [] ch = "t" -> 116
      [] ch = "u" -> 117

as_bytes(s) == [i \in 1 .. Len(s) |-> Ascii(SubSeq(s, i, i))]

\* the segment every operation builds from the connection's fields
MkTcp(c, bits, data) ==
    [header |-> [src |-> c.host_port, dst |-> c.peer_port,
                 sequence |-> c.sequence, ack_num |-> c.acknowledge,
                 flags |-> OutFlags(bits)],
     options |-> <<>>, data |-> data]

\* the 16-bit segment length fed to the checksum
segment_len(tcp) == (HeaderSize + Len(tcp.options) + Len(tcp.data)) % U16

\* mutant: the source port is not compared
PortsMatch_DstOnly(c, seg) == seg.header.dst = c.host_port

\* the port filter of the wait loops
PortsMatch(c, seg) ==
    seg.header.dst = c.host_port /\ seg.header.src = c.peer_port

Masked(seg) == BitAnd(seg.header.flags, FlagMask)

\* ------------------------------------------------------------ connections
Handles == 1 .. MaxHandles

FreeConn ==
    [state |-> "free", peer_addr |-> "", peer_port |-> 0, host_port |-> 0,
     sequence |-> ToU32(0), acknowledge |-> ToU32(0)]

TcpResource(addr, pport, hport, seq, ack) ==
    [state |-> "open", peer_addr |-> addr, peer_port |-> pport, host_port |-> hport,
     sequence |-> seq, acknowledge |-> ack]

NoResult == [op |-> "none", tag |-> "none", val |-> 0, errno |-> "none"]
Returned(op, r) == [op |-> op, tag |-> r.tag, val |-> r.val, errno |-> r.errno]

VARIABLES
    conns,      \* handle -> TcpResource (or FreeConn)
    pc,         \* where the operation in progress is: idle, a wait loop, or panic
    cur,        \* the handle the operation in progress works on (0: none)
    lport,      \* the listener's local port
    buf,        \* the caller's buffer: the bytes to write, or the bytes read
    cap,        \* the capacity of the caller's read buffer
    size,       \* write: the count the IP resource's write returned
    got,        \* what the IP read the loop waits in has returned (NoRead: blocked)
    wire,       \* the IP writes of the operation in progress or last completed
    result,     \* what the last completed operation returned
    old,        \* the connection as it was when the operation was called
    op,         \* the operation in progress or last completed
    url,        \* the reference of the url of the last open
    ippath,     \* listener: what the IP resource's path returned for the SYN (NoResult: not called)
    calls       \* the number of operations called so far

vars == <<conns, pc, cur, lport, buf, cap, size, got, wire, result, old, op, url, ippath, calls>>

\* one IP write: the datagram handed over and what the IP resource returned
Sent(tcp, w) == [dgram |-> to_bytes(tcp), segment_len |-> segment_len(tcp), res |-> w]

\* what the IP resource's write may return for a datagram
IpWriteResults(tcp) == {Ok(to_bytes(tcp).len)} \cup IoFailures

\* what the IP resource's read may return
IpReadResults == {Ok(d) : d \in Datagrams} \cup IoFailures

\* what the IP resource's open, dup, path and sync may return
IpOpenResults == {Ok(0)} \cup IoFailures

NoRead == [tag |-> "NoRead", val |-> ShortDatagram, errno |-> "none"]

FreeHandles == {h \in Handles : conns[h].state = "free"}
NewHandle == CHOOSE h \in FreeHandles : \A g \in FreeHandles : h <= g

Init ==
    /\ conns = [h \in Handles |-> FreeConn]
    /\ pc = "idle"
    /\ cur = 0
    /\ lport = 0
    /\ buf = <<>>
    /\ cap = 0
    /\ size = 0
    /\ got = NoRead
    /\ wire = <<>>
    /\ result = NoResult
    /\ old = FreeConn
    /\ op = "none"
    /\ url = ""
    /\ ippath = NoResult
    /\ calls = 0

\* ------------------------------------------------------- pieces of the code
SYN_ACK == BitOr(TCP_SYN, TCP_ACK)
PSH_ACK == BitOr(TCP_PSH, TCP_ACK)
FIN_ACK == BitOr(TCP_FIN, TCP_ACK)

\* mutant: any segment with SYN set is taken as the SYN|ACK
ClientAccepts_AnySyn(seg) == BitAnd(seg.header.flags, TCP_SYN) = TCP_SYN

\* client_establish: the test on the first port-matching segment
ClientAccepts(seg) == Masked(seg) = SYN_ACK

\* mutant: the increment of acknowledge is left out
ClientEstablished_NoIncrement(c, seg) ==
    [c EXCEPT !.state = "open",
              !.sequence = seg.header.ack_num,
              !.acknowledge = seg.header.sequence]

\* client_establish: sequence = ack_num; acknowledge = sequence; acknowledge += 1
ClientEstablished(c, seg) ==
    [c EXCEPT !.state = "open",
              !.sequence = seg.header.ack_num,
              !.acknowledge = AddU32(seg.header.sequence, ToU32(1))]

\* server_establish: the test on the first port-matching segment
ServerAccepts(seg) == Masked(seg) = TCP_ACK

\* mutant: acknowledge is advanced by one, as the client handshake does
ServerEstablished_Incremented(c, seg) ==
    [c EXCEPT !.state = "open",
              !.sequence = seg.header.ack_num,
              !.acknowledge = AddU32(seg.header.sequence, ToU32(1))]

\* server_establish: sequence = ack_num; acknowledge = sequence
ServerEstablished(c, seg) ==
    [c EXCEPT !.state = "open",
              !.sequence = seg.header.ack_num,
              !.acknowledge = seg.header.sequence]

\* server_establish: acknowledge += 1 before the SYN|ACK is built
ServerSynReceived(c) == [c EXCEPT !.acknowledge = AddU32(c.acknowledge, ToU32(1))]

\* mutant: the listener takes a SYN for any port
ListenAccepts_AnyPort(port, seg) == Masked(seg) = TCP_SYN

\* the listener's test on a decoded datagram
ListenAccepts(port, seg) == seg.header.dst = port /\ Masked(seg) = TCP_SYN

\* mutant: read takes any port-matching segment with ACK set
ReadAccepts_AnyAck(c, seg) ==
    BitAnd(seg.header.flags, TCP_ACK) = TCP_ACK /\ PortsMatch(c, seg)

\* mutant: the port filter is left out
ReadAccepts_NoPortCheck(c, seg) == Masked(seg) = PSH_ACK

\* read: the filter of the receive loop
ReadAccepts(c, seg) == Masked(seg) = PSH_ACK /\ PortsMatch(c, seg)

\* mutant: acknowledge advances from its old value instead of the segment's sequence
ReadUpdate_FromOld(c, seg) ==
    [c EXCEPT !.sequence = seg.header.ack_num,
              !.acknowledge = AddU32(c.acknowledge, ToU32(Len(seg.data)))]

\* read: sequence = ack_num; acknowledge = sequence + data.len()
ReadUpdate(c, seg) ==
    [c EXCEPT !.sequence = seg.header.ack_num,
              !.acknowledge = AddU32(seg.header.sequence, ToU32(Len(seg.data)))]

\* mutant: the whole payload is copied, whatever the buffer holds
ReadCopy_Whole(n, data) == data

\* read: the copy loop, i < buf.len() && i < segment.data.len()
ReadCopy(n, data) == SubSeq(data, 1, Min(n, Len(data)))

\* mutant: any reply with ACK set is taken as the ACK
WriteAccepts_AnyAck(seg) == BitAnd(seg.header.flags, TCP_ACK) = TCP_ACK

\* write: the test on the first port-matching reply
WriteAccepts(seg) == Masked(seg) = TCP_ACK

\* mutant: acknowledge is not taken from the reply
WriteUpdate_KeepsAcknowledge(c, seg) == [c EXCEPT !.sequence = seg.header.ack_num]

\* mutant: the two counters are taken from the wrong fields
WriteUpdate_Swapped(c, seg) ==
    [c EXCEPT !.sequence = seg.header.sequence,
              !.acknowledge = seg.header.ack_num]

\* write: sequence = ack_num; acknowledge = sequence
WriteUpdate(c, seg) ==
    [c EXCEPT !.sequence = seg.header.ack_num,
              !.acknowledge = seg.header.sequence]

\* write: the value of a successful write, Ok(size)
WriteReturn(sz, b) == Ok(sz)

\* mutant: the duplicate starts with zeroed counters
Duplicated_Zeroed(c) ==
    TcpResource(c.peer_addr, c.peer_port, c.host_port, ToU32(0), ToU32(0))

\* dup: the new resource takes every scalar field of the original
Duplicated(c) ==
    TcpResource(c.peer_addr, c.peer_port, c.host_port, c.sequence, c.acknowledge)

\* path: format!("udp:{}:{}/{}", peer_addr.to_string(), peer_port, host_port);
\* the address is held as its dotted-decimal text
path_string(c) ==
    "udp:" \o c.peer_addr \o ":" \o Decimal(c.peer_port) \o "/" \o Decimal(c.host_port)

\* mutant: the segment of the drop carries FIN alone
DropSent_FinOnly(c, w) == Sent(MkTcp(c, TCP_FIN, <<>>), w)

\* Drop for TcpResource: one FIN|ACK with the current counters, result ignored
DropSent(c, w) == Sent(MkTcp(c, FIN_ACK, <<>>), w)

\* mutant: an IP error is turned into BrokenPipe
Failed_Translated(name, e) == Returned(name, Err("EPIPE"))

\* Err(err) => return Err(err): an IP error is returned as it came
Failed(name, e) == Returned(name, e)

\* mutant: open ends with BrokenPipe
OpenFailed_BrokenPipe == Returned("open", Err("EPIPE"))

\* the end of open: Err(Error::new(ENOENT))
OpenFailed == Returned("open", Err("ENOENT"))

Pending(c) == [c EXCEPT !.state = "pending"]

\* --------------------------------------------------------------- actions
WaitLoops == {"client_wait", "listen_read", "server_wait", "read_wait", "write_wait"}

\* an operation is called
Call(name) ==
    /\ pc = "idle"
    /\ calls < MaxCalls
    /\ calls' = calls + 1
    /\ op' = name
    /\ got' = NoRead
    /\ ippath' = NoResult

\* the loop's buffer: zeroed when the loop reads again, left as read on return
Consumed == got' = IF pc' \in {"idle", "panic"} THEN got ELSE NoRead

\* the IP resource's read returns to the loop blocked in it
ip_read(rd) ==
    /\ pc \in WaitLoops
    /\ got = NoRead
    /\ got' = rd
    /\ UNCHANGED <<conns, pc, cur, lport, buf, cap, size, wire, result, old, op, url, ippath, calls>>

\* TcpScheme::open, client branch: open the IP resource, build the resource,
\* client_establish up to the SYN's write
open_connect(addr, pport, hport, seq, o) ==
    /\ Call("connect")
    /\ FreeHandles # {}
    /\ UNCHANGED <<lport, buf, cap, size>>
    /\ IF o.tag = "Err"
       THEN /\ result' = Failed("open", o)
            /\ wire' = <<>>
            /\ old' = FreeConn
            /\ UNCHANGED <<conns, pc, cur>>
       ELSE LET ret == TcpResource(addr, pport, hport, seq, ToU32(0))
                syn == MkTcp(ret, TCP_SYN, <<>>)
            IN  /\ old' = ret
                /\ \E w \in IpWriteResults(syn) :
                     IF w.tag = "Err"
                     THEN /\ \E wd \in IpWriteResults(MkTcp(ret, FIN_ACK, <<>>)) :
                                wire' = <<Sent(syn, w), DropSent(ret, wd)>>
                          /\ result' = OpenFailed
                          /\ UNCHANGED <<conns, pc, cur>>
                     ELSE /\ wire' = <<Sent(syn, w)>>
                          /\ result' = NoResult
                          /\ cur' = NewHandle
                          /\ conns' = [conns EXCEPT ![NewHandle] = Pending(ret)]
                          /\ pc' = "client_wait"

\* mutant: a failed handshake leaves without the FIN|ACK
HandshakeFails_NoClose(next, res) ==
    /\ wire' = wire
    /\ conns' = [conns EXCEPT ![cur] = FreeConn]
    /\ cur' = 0
    /\ pc' = next
    /\ result' = res

\* a failed handshake: the resource is dropped (FIN|ACK)
HandshakeFails(next, res) ==
    /\ \E wd \in IpWriteResults(MkTcp(conns[cur], FIN_ACK, <<>>)) :
          wire' = Append(wire, DropSent(conns[cur], wd))
    /\ conns' = [conns EXCEPT ![cur] = FreeConn]
    /\ cur' = 0
    /\ pc' = next
    /\ result' = res

\* the loop drops what it read and reads again
ReadAgain == UNCHANGED <<conns, pc, cur, wire, result>>

\* Tcp::from_bytes panicked in the loop
Panics ==
    /\ pc' = "panic"
    /\ UNCHANGED <<conns, cur, wire, result>>

\* TcpResource::client_establish, one turn of the wait loop, and the end of open
client_establish ==
    /\ pc = "client_wait"
    /\ UNCHANGED <<url, ippath>>
    /\ got # NoRead
    /\ UNCHANGED <<lport, buf, cap, size, old, op, calls>>
    /\ IF got.tag = "Err"
       THEN HandshakeFails("idle", OpenFailed)
       ELSE LET seg == from_bytes(got.val)
                c == conns[cur]
            IN  CASE seg.tag = "Panic" -> Panics
                  [] seg.tag = "Some" /\ PortsMatch(c, seg) /\ ClientAccepts(seg) ->
                       LET c2 == ClientEstablished(c, seg)
                           ack == MkTcp(c2, TCP_ACK, <<>>)
                       IN  /\ conns' = [conns EXCEPT ![cur] = c2]
                           /\ \E w \in IpWriteResults(ack) :
                                 wire' = Append(wire, Sent(ack, w))
                           /\ result' = Returned("open", Ok(cur))
                           /\ pc' = "idle"
                           /\ UNCHANGED cur
                  [] seg.tag = "Some" /\ PortsMatch(c, seg) /\ ~ClientAccepts(seg) ->
                       HandshakeFails("idle", OpenFailed)
                  [] OTHER -> ReadAgain
    /\ Consumed

\* TcpScheme::open, server branch: enter the listener loop
open_listen(port) ==
    /\ Call("listen")
    /\ FreeHandles # {}
    /\ pc' = "listen"
    /\ lport' = port
    /\ cur' = 0
    /\ wire' = <<>>
    /\ result' = NoResult
    /\ old' = FreeConn
    /\ UNCHANGED <<conns, buf, cap, size>>

\* the head of the listener loop: while let Ok(ip) = open("ip:/6"), then read
listen_open(o) ==
    /\ pc = "listen"
    /\ UNCHANGED url
    /\ ippath' = NoResult
    /\ UNCHANGED <<conns, cur, lport, buf, cap, size, got, wire, old, op, calls>>
    /\ IF o.tag = "Err"
       THEN /\ result' = OpenFailed
            /\ pc' = "idle"
       ELSE /\ pc' = "listen_read"
            /\ UNCHANGED result

\* the body of the listener loop on the datagram read: on a SYN for the port
\* build the resource and run server_establish up to the SYN|ACK's write
listen_scan(p, addr, seq) ==
    /\ pc = "listen_read"
    /\ UNCHANGED url
    /\ got # NoRead
    /\ ippath' = IF got.tag = "Ok" /\ from_bytes(got.val).tag = "Some"
                    /\ ListenAccepts(lport, from_bytes(got.val))
                 THEN Returned("path", p) ELSE NoResult
    /\ UNCHANGED <<lport, buf, cap, size, op, calls>>
    /\ IF got.tag = "Err"
       THEN /\ result' = Failed("open", got)
            /\ pc' = "idle"
            /\ UNCHANGED <<conns, cur, wire, old>>
       ELSE LET seg == from_bytes(got.val) IN
            CASE seg.tag = "Panic" -> Panics /\ UNCHANGED old
              [] seg.tag = "Some" /\ ListenAccepts(lport, seg) /\ p.tag = "Ok" ->
                   LET ret == TcpResource(addr, seg.header.src, lport, seq,
                                          seg.header.sequence)
                       ret1 == ServerSynReceived(ret)
                       synack == MkTcp(ret1, SYN_ACK, <<>>)
                   IN  /\ old' = ret
                       /\ \E w \in IpWriteResults(synack) :
                            IF w.tag = "Err"
                            THEN /\ \E wd \in IpWriteResults(MkTcp(ret1, FIN_ACK, <<>>)) :
                                       wire' = <<Sent(synack, w), DropSent(ret1, wd)>>
                                 /\ pc' = "listen"
                                 /\ UNCHANGED <<conns, cur, result>>
                            ELSE /\ wire' = <<Sent(synack, w)>>
                                 /\ cur' = NewHandle
                                 /\ conns' = [conns EXCEPT ![NewHandle] = Pending(ret1)]
                                 /\ pc' = "server_wait"
                                 /\ UNCHANGED result
              [] OTHER -> /\ pc' = "listen"
                          /\ UNCHANGED <<conns, cur, wire, result, old>>
    /\ Consumed

\* TcpResource::server_establish, one turn of the wait loop
server_establish ==
    /\ pc = "server_wait"
    /\ UNCHANGED <<url, ippath>>
    /\ got # NoRead
    /\ UNCHANGED <<lport, buf, cap, size, old, op, calls>>
    /\ IF got.tag = "Err"
       THEN HandshakeFails("listen", result)
       ELSE LET seg == from_bytes(got.val)
                c == conns[cur]
            IN  CASE seg.tag = "Panic" -> Panics
                  [] seg.tag = "Some" /\ PortsMatch(c, seg) /\ ServerAccepts(seg) ->
                       /\ conns' = [conns EXCEPT ![cur] = ServerEstablished(c, seg)]
                       /\ result' = Returned("open", Ok(cur))
                       /\ pc' = "idle"
                       /\ UNCHANGED <<cur, wire>>
                  [] seg.tag = "Some" /\ PortsMatch(c, seg) /\ ~ServerAccepts(seg) ->
                       HandshakeFails("listen", result)
                  [] OTHER -> ReadAgain
    /\ Consumed

\* TcpResource::read is called: it blocks in the IP resource's read
read_call(h, n) ==
    /\ Call("read")
    /\ UNCHANGED url
    /\ conns[h].state = "open"
    /\ pc' = "read_wait"
    /\ cur' = h
    /\ cap' = n
    /\ buf' = <<>>
    /\ wire' = <<>>
    /\ result' = NoResult
    /\ old' = conns[h]
    /\ UNCHANGED <<conns, lport, size>>

\* TcpResource::read, one turn of the receive loop
read ==
    /\ pc = "read_wait"
    /\ UNCHANGED <<url, ippath>>
    /\ got # NoRead
    /\ UNCHANGED <<lport, cap, size, old, op, calls>>
    /\ IF got.tag = "Err"
       THEN /\ result' = Failed("read", got)
            /\ pc' = "idle"
            /\ UNCHANGED <<conns, cur, buf, wire>>
       ELSE LET seg == from_bytes(got.val)
                c == conns[cur]
            IN  CASE seg.tag = "Panic" -> Panics /\ UNCHANGED buf
                  [] seg.tag = "Some" /\ ReadAccepts(c, seg) ->
                       LET c2 == ReadUpdate(c, seg)
                           ack == MkTcp(c2, TCP_ACK, <<>>)
                       IN  /\ conns' = [conns EXCEPT ![cur] = c2]
                           /\ \E w \in IpWriteResults(ack) :
                                 wire' = Append(wire, Sent(ack, w))
                           /\ buf' = ReadCopy(cap, seg.data)
                           /\ result' = Returned("read", Ok(Len(ReadCopy(cap, seg.data))))
                           /\ pc' = "idle"
                           /\ UNCHANGED cur
                  [] OTHER -> ReadAgain /\ UNCHANGED buf
    /\ Consumed

\* TcpResource::write up to the data segment's write
write_call(h, b) ==
    /\ Call("write")
    /\ UNCHANGED url
    /\ conns[h].state = "open"
    /\ cur' = h
    /\ buf' = b
    /\ old' = conns[h]
    /\ UNCHANGED <<conns, lport, cap>>
    /\ LET tcp == MkTcp(conns[h], PSH_ACK, b) IN
       \E w \in IpWriteResults(tcp) :
          /\ wire' = <<Sent(tcp, w)>>
          /\ IF w.tag = "Err"
             THEN /\ result' = Failed("write", w)
                  /\ UNCHANGED <<pc, size>>
             ELSE /\ result' = NoResult
                  /\ size' = w.val
                  /\ pc' = "write_wait"

\* mutant: the counters are taken from the reply that ends write with BrokenPipe
write_UpdatesOnBrokenPipe ==
    /\ pc = "write_wait"
    /\ UNCHANGED <<url, ippath>>
    /\ got # NoRead
    /\ UNCHANGED <<lport, buf, cap, size, old, cur, wire, op, calls>>
    /\ IF got.tag = "Err"
       THEN /\ result' = Failed("write", got)
            /\ pc' = "idle"
            /\ UNCHANGED conns
       ELSE LET seg == from_bytes(got.val)
                c == conns[cur]
            IN  CASE seg.tag = "Panic" -> pc' = "panic" /\ UNCHANGED <<conns, result>>
                  [] seg.tag = "Some" /\ PortsMatch(c, seg) /\ WriteAccepts(seg) ->
                       /\ conns' = [conns EXCEPT ![cur] = WriteUpdate(c, seg)]
                       /\ result' = Returned("write", WriteReturn(size, buf))
                       /\ pc' = "idle"
                  [] seg.tag = "Some" /\ PortsMatch(c, seg) /\ ~WriteAccepts(seg) ->
                       /\ conns' = [conns EXCEPT ![cur] = WriteUpdate(c, seg)]
                       /\ result' = Returned("write", Err("EPIPE"))
                       /\ pc' = "idle"
                  [] OTHER -> UNCHANGED <<conns, pc, result>>
    /\ Consumed

\* TcpResource::write, one turn of the wait loop
write ==
    /\ pc = "write_wait"
    /\ UNCHANGED <<url, ippath>>
    /\ got # NoRead
    /\ UNCHANGED <<lport, buf, cap, size, old, cur, wire, op, calls>>
    /\ IF got.tag = "Err"
       THEN /\ result' = Failed("write", got)
            /\ pc' = "idle"
            /\ UNCHANGED conns
       ELSE LET seg == from_bytes(got.val)
                c == conns[cur]
            IN  CASE seg.tag = "Panic" -> pc' = "panic" /\ UNCHANGED <<conns, result>>
                  [] seg.tag = "Some" /\ PortsMatch(c, seg) /\ WriteAccepts(seg) ->
                       /\ conns' = [conns EXCEPT ![cur] = WriteUpdate(c, seg)]
                       /\ result' = Returned("write", WriteReturn(size, buf))
                       /\ pc' = "idle"
                  [] seg.tag = "Some" /\ PortsMatch(c, seg) /\ ~WriteAccepts(seg) ->
                       /\ result' = Returned("write", Err("EPIPE"))
                       /\ pc' = "idle"
                       /\ UNCHANGED conns
                  [] OTHER -> UNCHANGED <<conns, pc, result>>
    /\ Consumed

\* TcpResource::dup: duplicate the IP resource, copy the scalar fields
dup(h, r) ==
    /\ Call("dup")
    /\ UNCHANGED url
    /\ conns[h].state = "open"
    /\ FreeHandles # {}
    /\ cur' = h
    /\ wire' = <<>>
    /\ old' = conns[h]
    /\ UNCHANGED <<pc, lport, buf, cap, size>>
    /\ IF r.tag = "Err"
       THEN /\ result' = Failed("dup", r)
            /\ UNCHANGED conns
       ELSE /\ result' = Returned("dup", Ok(NewHandle))
            /\ conns' = [conns EXCEPT ![NewHandle] = Duplicated(conns[h])]

\* TcpResource::path: the formatted path is copied into the caller's buffer as
\* far as it fits; Ok(min(buf.len(), path.len()))
path(h, n) ==
    /\ Call("path")
    /\ conns[h].state = "open"
    /\ cur' = h
    /\ cap' = n
    /\ wire' = <<>>
    /\ old' = conns[h]
    /\ LET bytes == as_bytes(path_string(conns[h])) IN
       /\ buf' = SubSeq(bytes, 1, Min(n, Len(bytes)))
       /\ result' = Returned("path", Ok(Min(n, Len(bytes))))
    /\ UNCHANGED <<conns, pc, lport, size, url>>

\* TcpResource::sync: the IP resource's sync
sync(h, r) ==
    /\ Call("sync")
    /\ UNCHANGED url
    /\ conns[h].state = "open"
    /\ cur' = h
    /\ wire' = <<>>
    /\ old' = conns[h]
    /\ result' = Returned("sync", r)
    /\ UNCHANGED <<conns, pc, lport, buf, cap, size>>

\* Drop for TcpResource, on a handle the caller closes
drop(h) ==
    /\ Call("drop")
    /\ UNCHANGED url
    /\ conns[h].state = "open"
    /\ cur' = h
    /\ old' = conns[h]
    /\ \E w \in IpWriteResults(MkTcp(conns[h], FIN_ACK, <<>>)) :
          wire' = <<DropSent(conns[h], w)>>
    /\ conns' = [conns EXCEPT ![h] = FreeConn]
    /\ result' = Returned("drop", Ok(0))
    /\ UNCHANGED <<pc, lport, buf, cap, size>>

\* TcpScheme::open when the reference names neither host and port nor a path:
\* neither branch is entered
open_neither ==
    /\ Call("open")
    /\ result' = OpenFailed
    /\ wire' = <<>>
    /\ old' = FreeConn
    /\ UNCHANGED <<conns, pc, cur, lport, buf, cap, size>>

\* TcpScheme::open: the reference is split at '/' and its first part at ':';
\* host and port both non-empty is the client branch, otherwise a non-empty
\* path is the server branch
open(u, hport, seq, o) ==
    LET remote == SplitFirst(u, "/")
        localpath == SplitSecond(u, "/")
        host == SplitFirst(remote, ":")
        port == SplitSecond(remote, ":")
    IN  /\ pc = "idle"
        /\ url' = u
        /\ IF host # "" /\ port # ""
           THEN open_connect(host, parse_port_or_zero(port), hport, seq, o)
           ELSE IF localpath # ""
           THEN open_listen(parse_port_or_zero(localpath))
           ELSE open_neither

Next ==
    \/ \E rd \in IpReadResults : ip_read(rd)
    \/ \E u \in Urls, hport \in HostPorts, seq \in InitSeqs, o \in IpOpenResults :
          open(u, hport, seq, o)
    \/ client_establish
    \/ \E o \in IpOpenResults : listen_open(o)
    \/ \E p \in IpOpenResults, addr \in PeerAddrs, seq \in InitSeqs :
          listen_scan(p, addr, seq)
    \/ server_establish
    \/ \E h \in Handles, n \in Caps : read_call(h, n)
    \/ read
    \/ \E h \in Handles, b \in Buffers : write_call(h, b)
    \/ write
    \/ \E h \in Handles, r \in IpOpenResults : dup(h, r)
    \/ \E h \in Handles, n \in PathCaps : path(h, n)
    \/ \E h \in Handles, r \in IpOpenResults : sync(h, r)
    \/ \E h \in Handles : drop(h)

Spec == Init /\ [][Next]_vars

\* The blocking operations alone (the two opens and write), over the datagrams
\* that differ in length, ports, flags and header length but not in payload or
\* sequence numbers.
LiveUrls == {"203.0.113.5:80", "/32768"}
LiveDatagrams == {d \in Datagrams : d.sequence = ToU32(100) /\ Len(d.body) <= 1}
LiveReadResults == {Ok(d) : d \in LiveDatagrams} \cup IoFailures

NextLive ==
    \/ \E rd \in LiveReadResults : ip_read(rd)
    \/ \E u \in LiveUrls, hport \in HostPorts, seq \in InitSeqs, o \in IpOpenResults :
          open(u, hport, seq, o)
    \/ client_establish
    \/ \E o \in IpOpenResults : listen_open(o)
    \/ \E p \in IpOpenResults, addr \in PeerAddrs, seq \in InitSeqs :
          listen_scan(p, addr, seq)
    \/ server_establish
    \/ \E h \in Handles, b \in Buffers : write_call(h, b)
    \/ write

\* A wait loop that has been handed the result of its IP read goes on to handle
\* it: the loops are straight-line code. Nothing obliges the IP resource to
\* deliver anything.
SpecLive ==
    /\ Init
    /\ [][NextLive]_vars
    /\ WF_vars(client_establish)
    /\ WF_vars(server_establish)
    /\ WF_vars(write)

\* The connections a completed client open leaves: the resource open builds,
\* after client_establish has taken the peer's SYN|ACK.
EstablishedConns ==
    { ClientEstablished(TcpResource(addr, pport, hport, seq, ToU32(0)),
                        from_bytes(Datagram(pport, hport, qa, SYN_ACK, <<5, <<>>>>))) :
        addr \in PeerAddrs, pport \in ConnectPorts, hport \in HostPorts,
        seq \in InitSeqs, qa \in SeqAcks }

\* The scheme with one connection already returned by open to its caller.
InitEstablished ==
    /\ conns \in { [h \in Handles |-> IF h = 1 THEN c ELSE FreeConn] : c \in EstablishedConns }
    /\ pc = "idle"
    /\ cur = 0
    /\ lport = 0
    /\ buf = <<>>
    /\ cap = 0
    /\ size = 0
    /\ got = NoRead
    /\ wire = <<>>
    /\ result = NoResult
    /\ old = FreeConn
    /\ op = "none"
    /\ url = ""
    /\ ippath = NoResult
    /\ calls = 0

SpecEstablished == InitEstablished /\ [][Next]_vars

\* The smallest buffer whose segment no longer fits 16 bits: 65516 bytes.
LargeLen == U16 - HeaderSize
LargeBuffers == {[i \in 1 .. LargeLen |-> 0], [i \in 1 .. LargeLen - 1 |-> 0]}

\* write alone on an established connection, large buffers included
NextLarge ==
    \/ \E h \in Handles, b \in Buffers \cup LargeBuffers : write_call(h, b)
    \/ \E rd \in LiveReadResults : ip_read(rd)
    \/ write

SpecLarge == InitEstablished /\ [][NextLarge]_vars

\* ---------------------------------------------------------------- parse_ip
\* The address strings handed to parse_host and parse_port: every string of at
\* most MaxParseLen characters out of a letter, a digit and the two separators,
\* and three addresses as they are written.
MaxParseLen == 4
ParseAlphabet == {"a", "1", ":", "/"}

RECURSIVE StringsUpTo(_)
StringsUpTo(n) ==
    IF n = 0 THEN {""}
    ELSE LET r == StringsUpTo(n - 1) IN r \cup {x \o c : x \in r, c \in ParseAlphabet}

ParseInputs == StringsUpTo(MaxParseLen) \cup {"10.0.0.1:80", "10.0.0.1/x", "localhost"}

InitParse ==
    /\ conns = [h \in Handles |-> FreeConn]
    /\ pc = "idle"
    /\ cur = 0
    /\ lport = 0
    /\ buf = <<>>
    /\ cap = 0
    /\ size = 0
    /\ got = NoRead
    /\ wire = <<>>
    /\ result = NoResult
    /\ old = FreeConn
    /\ op = "none"
    /\ url \in ParseInputs
    /\ ippath = NoResult
    /\ calls = 0

\* one call of a function of parse_ip.rs on the string: its value, or its panic
ParseCall(name, r) ==
    /\ pc = "idle"
    /\ op = "none"
    /\ op' = name
    /\ IF r.tag = "Panic"
       THEN pc' = "panic" /\ UNCHANGED result
       ELSE result' = Returned(name, Ok(r.val)) /\ UNCHANGED pc
    /\ UNCHANGED <<conns, cur, lport, buf, cap, size, got, wire, old, url, ippath, calls>>

call_parse_host == ParseCall("parse_host", parse_host(url))

call_parse_port == ParseCall("parse_port", parse_port(url))

NextParse == call_parse_host \/ call_parse_port

SpecParse == InitParse /\ [][NextParse]_vars

\* ------------------------------------------------------------ the claims
\* what a claim reads off a datagram, from the wire format alone
CtlBits(d) == d.flags % 32
HeaderLenOf(d) == (d.flags \div 4096) * 4
Decodable(d) == d.len >= HeaderSize /\ HeaderLenOf(d) >= HeaderSize /\ HeaderLenOf(d) <= d.len
PayloadOf(d) == SubSeq(d.body, HeaderLenOf(d) - HeaderSize + 1, Len(d.body))
ForConn(c, d) == d.dst = c.host_port /\ d.src = c.peer_port
HasBit(x, b) == (x \div b) % 2 = 1
\* the PSH, SYN and ACK bits of a datagram's flags
Bits3(d) ==
    (IF HasBit(d.flags, TCP_PSH) THEN TCP_PSH ELSE 0) +
    (IF HasBit(d.flags, TCP_SYN) THEN TCP_SYN ELSE 0) +
    (IF HasBit(d.flags, TCP_ACK) THEN TCP_ACK ELSE 0)
\* the loop holds a decodable datagram for the connection it works on
Matching == got.tag = "Ok" /\ Decodable(got.val) /\ ForConn(conns[cur], got.val)
\* an empty segment of the given control bits and counters was handed to the IP resource
IsEmptySegment(e, c, bits, seq, ack) ==
    /\ e.dgram.src = c.host_port
    /\ e.dgram.dst = c.peer_port
    /\ CtlBits(e.dgram) = bits
    /\ e.dgram.sequence = seq
    /\ e.dgram.ack_num = ack
    /\ e.dgram.body = <<>>
    /\ e.dgram.len = HeaderSize

\* what C1 asks of one step
C1_Step ==
    pc = "client_wait" =>
      /\ Len(wire) = 1
      /\ IsEmptySegment(wire[1], old, TCP_SYN, old.sequence, ToU32(0))
      /\ (Matching /\ CtlBits(got.val) = TCP_SYN + TCP_ACK) =>
            /\ pc' = "idle"
            /\ result' = [op |-> "open", tag |-> "Ok", val |-> cur, errno |-> "none"]
            /\ conns'[cur].state = "open"
            /\ conns'[cur].sequence = got.val.ack_num
            /\ conns'[cur].acknowledge = AddU32(got.val.sequence, ToU32(1))
            /\ Len(wire') = 2
            /\ wire'[1] = wire[1]
            /\ IsEmptySegment(wire'[2], conns[cur], TCP_ACK, got.val.ack_num,
                              AddU32(got.val.sequence, ToU32(1)))

\* C1: the client handshake first hands one SYN with the initial sequence number
\* and acknowledgment 0 to the IP resource; when the first port-matching segment
\* carries SYN|ACK with sequence s and ack_num a, it sets sequence = a and
\* acknowledge = s + 1, hands exactly one ACK with these counters to the IP
\* resource and open returns the connection.
C1_ClientHandshakeSuccess == [][C1_Step]_vars

\* C1 witness: open returned a connection whose peer's SYN|ACK carried the
\* largest sequence number, so that acknowledge wrapped to 0
C1_Witness ==
    /\ pc = "idle" /\ op = "connect" /\ result.tag = "Ok"
    /\ got.tag = "Ok" /\ CtlBits(got.val) = TCP_SYN + TCP_ACK
    /\ got.val.sequence = MaxU32
    /\ conns[cur].acknowledge = ToU32(0)
    /\ Len(wire) = 2

\* C2 (as claimed): the client handshake succeeds only if the flags of the first
\* port-matching segment are exactly SYN|ACK, none of FIN, RST, PSH set.
C2_Original ==
    (pc = "idle" /\ op = "connect" /\ result.tag = "Ok") =>
        CtlBits(got.val) = TCP_SYN + TCP_ACK

\* what C2 asks of one step
C2_Step ==
    (pc = "client_wait" /\ Matching) =>
        IF Bits3(got.val) = TCP_SYN + TCP_ACK
        THEN pc' = "idle" /\ result'.tag = "Ok" /\ conns'[cur].state = "open"
        ELSE /\ pc' = "idle"
             /\ result' = [op |-> "open", tag |-> "Err", val |-> 0, errno |-> "ENOENT"]
             /\ conns'[cur].state = "free"
             /\ Len(wire') = 2
             /\ wire'[1] = wire[1]
             /\ IsEmptySegment(wire'[2], conns[cur], TCP_FIN + TCP_ACK, old.sequence, ToU32(0))

\* C2 (amended): the client handshake succeeds if and only if the PSH, SYN and ACK
\* bits of the first port-matching segment are exactly SYN|ACK (FIN and RST are not
\* looked at); otherwise it fails at once: open returns NoSuchEntity, no ACK and no
\* second SYN is written and nothing more is read; the only further write is the
\* FIN|ACK of the dropped resource.
C2_ClientHandshakeFailure == [][C2_Step]_vars

\* C2 witness: a port-matching segment that was not SYN|ACK ended the handshake
C2_Witness ==
    /\ pc = "idle" /\ op = "connect" /\ result.tag = "Err" /\ result.errno = "ENOENT"
    /\ got.tag = "Ok" /\ CtlBits(got.val) = TCP_RST
    /\ Len(wire) = 2

\* C3 (as claimed): read accepts a segment only if its flags are exactly PSH|ACK,
\* none of FIN, SYN, RST set.
C3_Original ==
    (pc = "idle" /\ op = "read" /\ result.tag = "Ok") =>
        CtlBits(got.val) = TCP_PSH + TCP_ACK

\* what C3 asks of one step
C3_Step ==
    (pc = "read_wait" /\ got.tag = "Ok" /\ Decodable(got.val)) =>
        IF Bits3(got.val) = TCP_PSH + TCP_ACK /\ ForConn(conns[cur], got.val)
        THEN /\ pc' = "idle"
             /\ result'.tag = "Ok"
             /\ conns'[cur].sequence = got.val.ack_num
             /\ conns'[cur].acknowledge =
                   AddU32(got.val.sequence, ToU32(Len(PayloadOf(got.val))))
        ELSE /\ pc' = "read_wait"
             /\ conns' = conns
             /\ wire' = wire
             /\ result' = result

\* C3 (amended): read accepts a decoded segment if and only if the PSH, SYN and ACK
\* bits of its flags are exactly PSH|ACK (FIN and RST are not looked at) and its
\* ports match; on acceptance sequence = ack_num and acknowledge = sequence +
\* payload length; a segment that is not accepted leaves the connection unchanged,
\* writes nothing and the loop reads again.
C3_ReceiveFilter == [][C3_Step]_vars

\* C3 witness: read accepted a PSH|ACK segment that also had FIN set
C3_Witness ==
    /\ pc = "idle" /\ op = "read" /\ result.tag = "Ok"
    /\ CtlBits(got.val) = TCP_PSH + TCP_ACK + TCP_FIN
    /\ conns[cur].sequence = got.val.ack_num
    /\ Len(PayloadOf(got.val)) = 10

\* C4 (as claimed): an accepted segment with payload P makes read hand one ACK with
\* ack_num = (acknowledge before the call) + len(P) to the IP resource and return len(P).
C4_Original ==
    (pc = "idle" /\ op = "read" /\ result.tag = "Ok") =>
        /\ Len(wire) = 1
        /\ wire[1].dgram.ack_num = AddU32(old.acknowledge, ToU32(Len(PayloadOf(got.val))))
        /\ result.val = Len(PayloadOf(got.val))

\* C4 (amended): an accepted segment with sequence number s and payload P makes one
\* call to read consume that one segment and hand exactly one empty ACK segment to
\* the IP resource, with ack_num = s + len(P) (which is the acknowledge held before
\* the call plus len(P) exactly when s equals that acknowledge), before read returns
\* min(len(P), capacity of the caller's buffer).
C4_ReceiveTriggersAck ==
    (pc = "idle" /\ op = "read" /\ result.tag = "Ok") =>
        LET P == PayloadOf(got.val) IN
        /\ Len(wire) = 1
        /\ IsEmptySegment(wire[1], old, TCP_ACK, got.val.ack_num,
                          AddU32(got.val.sequence, ToU32(Len(P))))
        /\ (got.val.sequence = old.acknowledge =>
               wire[1].dgram.ack_num = AddU32(old.acknowledge, ToU32(Len(P))))
        /\ result.val = (IF cap < Len(P) THEN cap ELSE Len(P))
        /\ buf = SubSeq(P, 1, result.val)

\* C4 witness: an in-order segment of 10 bytes was read into a larger buffer
C4_Witness ==
    /\ pc = "idle" /\ op = "read" /\ result.tag = "Ok" /\ result.val = 10
    /\ got.val.sequence = old.acknowledge
    /\ Len(wire) = 1
    /\ wire[1].dgram.ack_num = AddU32(old.acknowledge, ToU32(10))

\* what C5 asks of one step
C5_Step ==
    pc = "write_wait" =>
      /\ Len(wire) = 1
      /\ wire[1].dgram.src = old.host_port
      /\ wire[1].dgram.dst = old.peer_port
      /\ CtlBits(wire[1].dgram) = TCP_PSH + TCP_ACK
      /\ wire[1].dgram.sequence = old.sequence
      /\ wire[1].dgram.ack_num = old.acknowledge
      /\ wire[1].dgram.body = buf
      /\ conns[cur] = old
      /\ (Matching /\ CtlBits(got.val) = TCP_ACK) =>
            /\ pc' = "idle"
            /\ result'.op = "write" /\ result'.tag = "Ok"
            /\ conns'[cur].sequence = got.val.ack_num
            /\ conns'[cur].acknowledge = got.val.sequence
            /\ wire' = wire

\* C5: write hands exactly one PSH|ACK segment with the current sequence and
\* acknowledge and the caller's bytes to the IP resource, then waits; when the first
\* port-matching reply has flags ACK with ack_num a and sequence number s, write sets
\* sequence = a, acknowledge = s and succeeds.
C5_SendSuccess == [][C5_Step]_vars

\* C5 witness: sequence 100, a 10-byte buffer, a peer ACK with ack_num 110
C5_Witness ==
    /\ pc = "idle" /\ op = "write" /\ result.tag = "Ok"
    /\ old.sequence = ToU32(100) /\ Len(buf) = 10
    /\ CtlBits(got.val) = TCP_ACK /\ got.val.ack_num = ToU32(110)
    /\ conns[cur].sequence = ToU32(110)
    /\ conns[cur].acknowledge = got.val.sequence

\* C6 (as claimed): after a successful write of n bytes, sequence is its value
\* before the write plus n, whatever ack_num the peer's ACK carries.
C6_Original ==
    (pc = "idle" /\ op = "write" /\ result.tag = "Ok") =>
        conns[cur].sequence = AddU32(old.sequence, ToU32(Len(buf)))

\* C6 (amended): after a successful write, sequence is the ack_num the peer's ACK
\* carries; it is the value before the write plus n only when the peer acknowledges
\* exactly the n bytes written.
C6_SequenceAfterWrite ==
    (pc = "idle" /\ op = "write" /\ result.tag = "Ok") =>
        /\ conns[cur].sequence = got.val.ack_num
        /\ conns[cur].acknowledge = got.val.sequence

\* C6 witness: a write succeeded on an ACK that did not acknowledge the bytes written
C6_Witness ==
    /\ pc = "idle" /\ op = "write" /\ result.tag = "Ok"
    /\ Len(buf) = 10
    /\ got.val.ack_num # AddU32(old.sequence, ToU32(10))
    /\ conns[cur].sequence = got.val.ack_num

\* C7 (as claimed): when the first port-matching reply has flags that are not
\* exactly ACK, write returns BrokenPipe.
C7_Original ==
    (pc = "idle" /\ op = "write" /\ got.tag = "Ok" /\ CtlBits(got.val) # TCP_ACK) =>
        (result.tag = "Err" /\ result.errno = "EPIPE")

\* what C7 asks of one step
C7_Step ==
    (pc = "write_wait" /\ Matching) =>
        /\ pc' = "idle"
        /\ wire' = wire
        /\ IF Bits3(got.val) = TCP_ACK
           THEN result'.tag = "Ok"
           ELSE /\ result' = [op |-> "write", tag |-> "Err", val |-> 0, errno |-> "EPIPE"]
                /\ conns' = conns

\* C7 (amended): when the PSH, SYN and ACK bits of the first port-matching reply
\* are not exactly ACK (PSH or SYN set, or ACK absent), write returns BrokenPipe
\* without writing the data segment again and without reading further; FIN and RST
\* are not looked at, so ACK with FIN or RST set is taken as the ACK.
C7_SendFailure == [][C7_Step]_vars

\* C7 witness: a SYN|ACK reply ended write with BrokenPipe
C7_Witness ==
    /\ pc = "idle" /\ op = "write" /\ result.errno = "EPIPE"
    /\ got.tag = "Ok" /\ CtlBits(got.val) = TCP_SYN + TCP_ACK
    /\ Len(wire) = 1
    /\ conns[cur] = old

\* C8: a successful write of an n-byte buffer returns n, the IP resource's write
\* returning the length of the datagram it was given.
C8_WriteReturnsCount ==
    (pc = "idle" /\ op = "write" /\ result.tag = "Ok") => result.val = Len(buf)

C9_Step ==
    /\ (pc \in {"read_wait", "write_wait", "listen_read"} /\ got.tag = "Err") =>
          /\ pc' = "idle"
          /\ result'.tag = "Err" /\ result'.errno = got.errno
          /\ conns' = conns /\ wire' = wire
    /\ (pc = "client_wait" /\ got.tag = "Err") =>
          /\ pc' = "idle"
          /\ result'.tag = "Err" /\ result'.errno = "ENOENT"
          /\ conns'[cur].state = "free"
    /\ (pc = "server_wait" /\ got.tag = "Err") =>
          /\ pc' = "listen"
          /\ result' = result
          /\ conns'[cur].state = "free"
    /\ (pc = "idle" /\ pc' = "idle" /\ calls' # calls /\ op' = "write") =>
          /\ wire'[1].res.tag = "Err"
          /\ result'.tag = "Err" /\ result'.errno = wire'[1].res.errno
          /\ conns' = conns
    /\ (pc = "idle" /\ pc' = "idle" /\ calls' # calls /\ op' = "connect"
          /\ wire' # <<>>) =>
          /\ wire'[1].res.tag = "Err"
          /\ result'.tag = "Err" /\ result'.errno = "ENOENT"
    /\ (pc = "read_wait" /\ pc' = "idle" /\ got.tag = "Ok") => result'.tag = "Ok"

C10_Step ==
    /\ (op' = "connect" /\ pc' = "idle" /\ result'.tag = "Ok" /\ calls' = calls) =>
          /\ pc = "client_wait"
          /\ Matching
          /\ Bits3(got.val) = TCP_SYN + TCP_ACK
          /\ conns'[result'.val].state = "open"
    /\ (op' = "connect" /\ pc' = "idle" /\ calls' # calls) =>
          /\ result'.tag = "Err"
          /\ conns' = conns
          /\ (wire' # <<>> => result'.errno = "ENOENT")
    /\ (pc = "client_wait" /\ pc' = "idle"
          /\ ~(Matching /\ Bits3(got.val) = TCP_SYN + TCP_ACK)) =>
          /\ result' = [op |-> "open", tag |-> "Err", val |-> 0, errno |-> "ENOENT"]
          /\ conns' = [conns EXCEPT ![cur] = FreeConn]

\* C10: open of a host:port request returns a connection only if the client
\* handshake succeeded; whenever the client handshake fails (the SYN could not be
\* written, the IP read failed, or the first port-matching segment was refused) open
\* returns NoSuchEntity and leaves no connection.
C10_ClientOpen == [][C10_Step]_vars

\* C10 witness: the handshake failed on an IP read error and open returned NoSuchEntity
C10_Witness ==
    /\ pc = "idle" /\ op = "connect"
    /\ got.tag = "Err"
    /\ result.tag = "Err" /\ result.errno = "ENOENT"
    /\ \A h \in Handles : conns[h].state = "free"


\* what C11 reads off an open request: a non-empty string of decimal digits
IsNumeric(s) == Len(s) > 0 /\ \A i \in 1 .. Len(s) : IsDigit(SubSeq(s, i, i))
\* host:port[/localpath] with a non-empty host and a numeric port
IsConnectForm(u) ==
    LET remote == SubSeq(u, 1, Find(u, "/", 1) - 1)
        colon == Find(remote, ":", 1)
    IN  /\ colon > 1
        /\ colon <= Len(remote)
        /\ IsNumeric(SubSeq(remote, colon + 1, Len(remote)))
\* /port with a numeric port
IsListenForm(u) == Len(u) > 1 /\ SubSeq(u, 1, 1) = "/" /\ IsNumeric(SubSeq(u, 2, Len(u)))
Malformed(u) == ~IsConnectForm(u) /\ ~IsListenForm(u)

\* C11: an open request that is neither host:port[/localpath] with a numeric
\* port nor /port with a numeric port fails with NoSuchEntity, without opening
\* an IP resource and without handing any segment to the IP resource.
C11_MalformedOpen ==
    (op \in {"connect", "listen", "open"} /\ Malformed(url)) =>
        /\ op = "open"
        /\ pc = "idle"
        /\ result = OpenFailed
        /\ wire = <<>>


\* C12 (as claimed): the server handshake succeeds only if the flags of the first
\* port-matching reply are exactly ACK; any other flags make it fail.
C12_Original ==
    (pc = "idle" /\ op = "listen" /\ result.tag = "Ok") =>
        CtlBits(got.val) = TCP_ACK

\* what C12 asks of one step
C12_Step ==
    /\ (pc = "listen_read" /\ pc' = "server_wait") =>
          /\ got.tag = "Ok"
          /\ Bits3(got.val) = TCP_SYN
          /\ conns'[cur'].acknowledge = AddU32(got.val.sequence, ToU32(1))
          /\ conns'[cur'].sequence \in InitSeqs
          /\ Len(wire') = 1
          /\ IsEmptySegment(wire'[1], conns'[cur'], TCP_SYN + TCP_ACK,
                            conns'[cur'].sequence, AddU32(got.val.sequence, ToU32(1)))
    /\ (pc = "server_wait" /\ Matching) =>
          IF Bits3(got.val) = TCP_ACK
          THEN /\ pc' = "idle"
               /\ result' = [op |-> "open", tag |-> "Ok", val |-> cur, errno |-> "none"]
               /\ conns'[cur].state = "open"
               /\ conns'[cur].sequence = got.val.ack_num
               /\ conns'[cur].acknowledge = got.val.sequence
               /\ wire' = wire
          ELSE /\ pc' = "listen"
               /\ result' = result
               /\ conns'[cur].state = "free"
               /\ Len(wire') = 2
               /\ wire'[1] = wire[1]
               /\ CtlBits(wire'[2].dgram) = TCP_FIN + TCP_ACK

\* C12 (amended): on a SYN with sequence number s the server sets acknowledge =
\* s + 1 and hands exactly one SYN|ACK with its own initial sequence number and
\* ack_num s + 1 to the IP resource; when the PSH, SYN and ACK bits of the first
\* port-matching reply are exactly ACK (FIN and RST are not looked at) it sets
\* sequence = ack_num, acknowledge = the reply's sequence number and succeeds;
\* otherwise it fails without handing the SYN|ACK to the IP resource again, the
\* only further write being the FIN|ACK of the dropped resource.
C12_ServerHandshake == [][C12_Step]_vars

\* C12 witness: the listener returned a connection established by a plain ACK
C12_Witness ==
    /\ pc = "idle" /\ op = "listen" /\ result.tag = "Ok"
    /\ got.tag = "Ok" /\ CtlBits(got.val) = TCP_ACK
    /\ conns[cur].state = "open"
    /\ conns[cur].sequence = got.val.ack_num
    /\ conns[cur].acknowledge = got.val.sequence
    /\ Len(wire) = 1


\* the listener holds a decodable SYN (without ACK or PSH) for its port
ListenerHoldsSyn ==
    /\ pc = "listen_read"
    /\ got.tag = "Ok"
    /\ Decodable(got.val)
    /\ got.val.dst = lport
    /\ Bits3(got.val) = TCP_SYN

\* what C13 says as claimed
C13_OriginalStep ==
    ListenerHoldsSyn =>
        \/ pc' = "server_wait"
        \/ /\ Len(wire') >= 1
           /\ CtlBits(wire'[1].dgram) = TCP_SYN + TCP_ACK
           /\ wire'[1].res.tag = "Err"

\* C13 (as claimed): the listener on port p starts a server handshake for every
\* datagram that decodes to a segment with dst port p and flags SYN (without ACK
\* or PSH).
C13_Original == [][C13_OriginalStep]_vars

\* what C13 asks of one step
C13_Step ==
    /\ (pc = "listen_read" /\ got.tag = "Ok" /\ Decodable(got.val)) =>
          /\ (ListenerHoldsSyn /\ ippath'.tag = "Ok") =>
                /\ Len(wire') >= 1
                /\ CtlBits(wire'[1].dgram) = TCP_SYN + TCP_ACK
                /\ wire'[1].dgram.src = lport
                /\ wire'[1].dgram.dst = got.val.src
                /\ \/ /\ pc' = "server_wait"
                      /\ conns'[cur'].state = "pending"
                      /\ conns'[cur'].host_port = lport
                      /\ conns'[cur'].peer_port = got.val.src
                   \/ /\ pc' = "listen"
                      /\ wire'[1].res.tag = "Err"
                      /\ conns' = conns
                      /\ result' = result
          /\ ~(ListenerHoldsSyn /\ ippath'.tag = "Ok") =>
                /\ pc' = "listen"
                /\ wire' = wire
                /\ conns' = conns
                /\ result' = result
          /\ ~ListenerHoldsSyn => ippath' = NoResult
    /\ (pc = "server_wait" /\ pc' = "idle") =>
          /\ result' = [op |-> "open", tag |-> "Ok", val |-> cur, errno |-> "none"]
          /\ conns'[cur].state = "open"
          /\ conns'[cur].host_port = lport
          /\ conns'[cur].peer_port = got.val.src
    /\ (op' = "listen" /\ pc' = "idle" /\ result'.tag = "Ok" /\ pc # "idle") =>
          pc = "server_wait"
    /\ (pc = "server_wait" /\ pc' \notin {"server_wait", "idle", "panic"}) =>
          /\ pc' = "listen"
          /\ result' = result
          /\ conns'[cur].state = "free"
    /\ (pc = "listen" /\ pc' # "listen") =>
          \/ pc' = "listen_read" /\ result' = result /\ conns' = conns
          \/ /\ pc' = "idle"
             /\ result' = [op |-> "open", tag |-> "Err", val |-> 0, errno |-> "ENOENT"]

\* C13 (amended): the listener on port p starts a server handshake for a datagram
\* if and only if it decodes to a segment with dst port p whose PSH, SYN and ACK
\* bits are exactly SYN and the path of the IP resource it was read from can be
\* read; the connection has host_port p and peer_port the SYN's src port; open
\* returns the connection of the first handshake that succeeds; after a datagram
\* that starts no handshake or a failed handshake the loop opens a fresh IP
\* resource and goes on, and open returns NoSuchEntity when that open fails.
C13_Listener == [][C13_Step]_vars

\* C13 witness: the listener on port 4000 returned the connection to the port the
\* SYN came from
C13_Witness ==
    /\ pc = "idle" /\ op = "listen" /\ result.tag = "Ok"
    /\ url = "/4000"
    /\ conns[result.val].state = "open"
    /\ conns[result.val].host_port = 4000
    /\ conns[result.val].peer_port = 80
    /\ ippath.tag = "Ok"


\* what C14 asks of one step
C14_Step ==
    (op' = "drop" /\ calls' # calls) =>
        /\ pc' = "idle"
        /\ got' = NoRead
        /\ Len(wire') = 1
        /\ IsEmptySegment(wire'[1], conns[cur'], TCP_FIN + TCP_ACK,
                          conns[cur'].sequence, conns[cur'].acknowledge)
        /\ result' = [op |-> "drop", tag |-> "Ok", val |-> 0, errno |-> "none"]
        /\ conns'[cur'].state = "free"
        /\ \A h \in Handles \ {cur'} : conns'[h] = conns[h]

\* C14: destroying a connection handle, the original or a duplicate, hands
\* exactly one FIN|ACK with empty payload and that handle's current sequence and
\* acknowledge to the IP resource, reads nothing, reports nothing when the write
\* fails and leaves every other handle as it was.
C14_Close == [][C14_Step]_vars

\* C14 witness: a duplicate was destroyed, the write of its FIN|ACK failed and
\* nothing was reported; the original is still open
C14_Witness ==
    /\ pc = "idle" /\ op = "drop" /\ cur = 2
    /\ wire[1].res.tag = "Err"
    /\ result.tag = "Ok"
    /\ conns[2].state = "free"
    /\ conns[1] = old


\* what C15 asks of one step
C15_Step ==
    /\ (op' = "dup" /\ calls' # calls) =>
          /\ pc' = "idle"
          /\ wire' = <<>>
          /\ conns'[cur'] = conns[cur']
          /\ IF result'.tag = "Ok"
             THEN /\ result'.val \in Handles \ {cur'}
                  /\ conns[result'.val].state = "free"
                  /\ conns'[result'.val] = conns[cur']
                  /\ \A h \in Handles \ {result'.val} : conns'[h] = conns[h]
             ELSE /\ result'.tag = "Err"
                  /\ result'.errno \in IoErrors
                  /\ conns' = conns
    /\ (op' \in {"read", "write"}) =>
          \A h \in Handles \ {cur'} : conns'[h] = conns[h]

\* C15: dup returns a new connection with the peer_addr, peer_port, host_port,
\* sequence and acknowledge the original has at the call and leaves the original
\* unchanged; afterwards a read or write on one of the two handles leaves the
\* sequence and acknowledge of the other unchanged; when the IP resource cannot
\* be duplicated, dup returns the IP resource's error and creates no connection.
C15_Duplicate == [][C15_Step]_vars

\* C15 witness: after a dup, a read on one of the two handles moved its counters
\* and the other handle still holds the counters both had
C15_Witness ==
    /\ pc = "idle" /\ op = "read" /\ result.tag = "Ok"
    /\ url = ""
    /\ \E h \in Handles \ {cur} :
          /\ conns[h].state = "open"
          /\ conns[h] = old
          /\ conns[h].acknowledge # conns[cur].acknowledge
          /\ conns[h].sequence # conns[cur].sequence


\* C16: for every connection path() writes "tcp:<peer_ip>:<peer_port>/<local_port>"
\* into the buffer and returns its length, changing no connection field: for
\* peer 203.0.113.5:80 and local port 4000 exactly "tcp:203.0.113.5:80/4000".
C16_PathFormat ==
    (pc = "idle" /\ op = "path" /\ cap = 64
       /\ old.peer_addr = "203.0.113.5" /\ old.peer_port = 80 /\ old.host_port = 4000) =>
        /\ buf = as_bytes("tcp:203.0.113.5:80/4000")
        /\ result.tag = "Ok"
        /\ result.val = Len("tcp:203.0.113.5:80/4000")
        /\ conns[cur] = old


\* C17: for every byte buffer of at least 20 bytes whose header-length field
\* gives 20 <= header_len <= length of the buffer, to_bytes(from_bytes(bytes))
\* is bytes again.
C17_RoundTrip ==
    (got.tag = "Ok" /\ Decodable(got.val)) =>
        /\ from_bytes(got.val).tag = "Some"
        /\ Len(from_bytes(got.val).options) = HeaderLenOf(got.val) - HeaderSize
        /\ to_bytes(from_bytes(got.val)) = got.val

\* C17 witness: read took a segment with four option bytes and a payload
C17_Witness ==
    /\ pc = "idle" /\ op = "read" /\ result.tag = "Ok"
    /\ got.tag = "Ok" /\ Decodable(got.val)
    /\ HeaderLenOf(got.val) = HeaderSize + 4
    /\ Len(from_bytes(got.val).options) = 4
    /\ from_bytes(got.val).data # <<>>
    /\ to_bytes(from_bytes(got.val)) = got.val


\* what C18 asks of one step
C18_Step ==
    (pc \in WaitLoops /\ got.tag = "Ok" /\ got.val.len < HeaderSize) =>
        /\ from_bytes(got.val).tag = "None"
        /\ pc' = (IF pc = "listen_read" THEN "listen" ELSE pc)
        /\ got' = NoRead
        /\ conns' = conns
        /\ wire' = wire
        /\ result' = result
        /\ buf' = buf
        /\ cur' = cur

\* C18: from_bytes gives None for every buffer shorter than 20 bytes, and in
\* every wait loop (read, write, both handshakes, the listener) a datagram
\* shorter than 20 bytes is dropped: nothing is returned, no connection field
\* changes, nothing is handed to the IP resource, and the loop reads again.
C18_ShortDatagrams == [][C18_Step]_vars

\* C18 witness: the wait loop of write holds a datagram of 19 bytes
C18_Witness ==
    /\ pc = "write_wait"
    /\ got.tag = "Ok"
    /\ got.val.len = HeaderSize - 1
    /\ from_bytes(got.val).tag = "None"


\* the control flags C19 allows on a segment handed to the IP resource
EmittedFlags ==
    {TCP_SYN, TCP_SYN + TCP_ACK, TCP_ACK, TCP_PSH + TCP_ACK, TCP_FIN + TCP_ACK}

\* C19: whatever sequence of open, read, write, dup and destruction is run, every
\* segment handed to the IP resource has its control flags equal to one of SYN,
\* SYN|ACK, ACK, PSH|ACK, FIN|ACK; none carries RST.
C19_EmittedFlagCombinations ==
    \A i \in 1 .. Len(wire) :
        /\ (wire[i].dgram.flags % 4096) \in EmittedFlags
        /\ ~HasBit(wire[i].dgram.flags, TCP_RST)

\* C19 witness: read took a segment that carried FIN with PSH|ACK and answered
\* with a plain ACK
C19_Witness ==
    /\ pc = "idle" /\ op = "read" /\ result.tag = "Ok"
    /\ HasBit(got.val.flags, TCP_FIN)
    /\ Len(wire) = 1
    /\ wire[1].dgram.flags % 4096 = TCP_ACK


\* the successor of a 32-bit number modulo 2^32, and n successors
Succ32(x) ==
    IF x = MaxU32 THEN ToU32(0)
    ELSE IF x[2] = U16 - 1 THEN <<x[1] + 1, 0>>
    ELSE <<x[1], x[2] + 1>>
RECURSIVE Plus32(_, _)
Plus32(x, n) == IF n = 0 THEN x ELSE Plus32(Succ32(x), n - 1)

\* what C20 asks of one step
C20_Step ==
    /\ (pc = "client_wait" /\ Matching /\ Bits3(got.val) = TCP_SYN + TCP_ACK) =>
          /\ pc' = "idle"
          /\ result'.tag = "Ok"
          /\ conns'[cur].acknowledge = Succ32(got.val.sequence)
    /\ (ListenerHoldsSyn /\ ippath'.tag = "Ok") =>
          /\ pc' \in {"server_wait", "listen"}
          /\ wire'[1].dgram.ack_num = Succ32(got.val.sequence)
          /\ pc' = "server_wait" => conns'[cur'].acknowledge = Succ32(got.val.sequence)
    /\ (pc = "read_wait" /\ Matching /\ Bits3(got.val) = TCP_PSH + TCP_ACK) =>
          /\ pc' = "idle"
          /\ result'.tag = "Ok"
          /\ conns'[cur].acknowledge =
                Plus32(got.val.sequence, Len(PayloadOf(got.val)))

BlockingLoops == {"client_wait", "server_wait", "write_wait"}
\* the loop has been handed what ends it: a read error or a decodable
\* port-matching segment
HoldsDeciding == pc \in BlockingLoops /\ (got.tag = "Err" \/ Matching)
\* the loop has been handed noise: a short datagram or a decodable one for other ports
HoldsNoise ==
    /\ pc \in BlockingLoops
    /\ got.tag = "Ok"
    /\ \/ got.val.len < HeaderSize
       \/ Decodable(got.val) /\ ~ForConn(conns[cur], got.val)

\* what C21 asks of one step
C21_Step ==
    /\ (pc \in BlockingLoops /\ pc' \in {"idle", "listen"}) => HoldsDeciding
    /\ HoldsDeciding => pc' \in {"idle", "listen"}
    /\ HoldsNoise => (pc' = pc /\ got' = NoRead /\ result' = result)
    /\ (pc \in BlockingLoops /\ got = NoRead) => pc' = pc

C22_SegmentLength ==
    \A i \in 1 .. Len(wire) : wire[i].segment_len = wire[i].dgram.len


\* C23: every segment from_bytes returns has options.len() + 20 = header_len
\* = (flags & 0xF000) >> 10, its options are bytes[20..header_len] and its
\* payload bytes[header_len..]: header, options and payload, one after the
\* other, are the buffer decoded.
C23_DecodedLayout ==
    (got.tag = "Ok" /\ from_bytes(got.val).tag = "Some") =>
        LET seg == from_bytes(got.val)
            hl == HeaderLenOf(got.val)
        IN  /\ Len(seg.options) + HeaderSize = hl
            /\ hl = header_len(seg.header.flags)
            /\ hl <= got.val.len
            /\ seg.options = SubSeq(got.val.body, 1, hl - HeaderSize)
            /\ seg.data = SubSeq(got.val.body, hl - HeaderSize + 1, got.val.len - HeaderSize)
            /\ seg.header = got.val
            /\ seg.options \o seg.data = got.val.body
            /\ HeaderSize + Len(seg.options) + Len(seg.data) = got.val.len

\* C23 witness: write was answered by a segment of four option bytes and six
\* payload bytes
C23_Witness ==
    /\ pc = "idle" /\ op = "write" /\ result.tag = "Err"
    /\ got.tag = "Ok" /\ from_bytes(got.val).tag = "Some"
    /\ from_bytes(got.val).options = <<1, 2, 3, 4>>
    /\ from_bytes(got.val).data = <<5, 6, 7, 8, 9, 10>>


\* the loop holds a datagram of at least 20 bytes whose header length is below
\* 20 or beyond the datagram
HoldsBadLength ==
    /\ pc \in WaitLoops
    /\ got.tag = "Ok"
    /\ got.val.len >= HeaderSize
    /\ (HeaderLenOf(got.val) < HeaderSize \/ HeaderLenOf(got.val) > got.val.len)

\* what C24 asks of one step
C24_Step ==
    /\ HoldsBadLength =>
          /\ from_bytes(got.val).tag = "Panic"
          /\ pc' = "panic"
          /\ conns' = conns
          /\ wire' = wire
          /\ result' = result
    /\ pc = "panic" => pc' = "panic"

\* C24: from_bytes, given at least 20 bytes whose header length is below 20 or
\* beyond the buffer, neither returns a segment nor None but panics, and each
\* of the wait loops (read, write, the two handshakes, the listener) that is
\* handed such a datagram, whatever its ports, stops with that panic: it does
\* not drop the datagram and read again.
C24_BadHeaderLength == [][C24_Step]_vars

\* C24 witness: a client handshake stopped by a datagram for another port whose
\* header length is 16
C24_Witness ==
    /\ pc = "panic" /\ op = "connect"
    /\ got.tag = "Ok" /\ got.val.len >= HeaderSize
    /\ HeaderLenOf(got.val) < HeaderSize
    /\ got.val.dst # conns[cur].host_port


\* the handshake loop holds what makes it fail: an IP read error, or a segment
\* for the connection whose PSH, SYN and ACK bits are not the expected ones
HandshakeRefused(loop, bits) ==
    /\ pc = loop
    /\ got.tag = "Err" \/ (Matching /\ Bits3(got.val) # bits)

\* the segments handed to the IP resource: one empty segment of the given
\* control bits, then one empty FIN|ACK, both between the same two ports
OpenedThenClosed(w, bits, local, peer) ==
    /\ Len(w) = 2
    /\ CtlBits(w[1].dgram) = bits
    /\ CtlBits(w[2].dgram) = TCP_FIN + TCP_ACK
    /\ \A i \in 1 .. 2 :
          /\ w[i].dgram.src = local
          /\ w[i].dgram.dst = peer
          /\ w[i].dgram.body = <<>>

\* what C25 asks of one step
C25_Step ==
    /\ HandshakeRefused("client_wait", TCP_SYN + TCP_ACK) =>
          /\ pc' = "idle"
          /\ result' = [op |-> "open", tag |-> "Err", val |-> 0, errno |-> "ENOENT"]
          /\ OpenedThenClosed(wire', TCP_SYN, conns[cur].host_port, conns[cur].peer_port)
          /\ conns'[cur].state = "free"
    /\ (pc = "idle" /\ op' = "connect" /\ calls' # calls /\ wire' # <<>>
          /\ wire'[1].res.tag = "Err") =>
          /\ pc' = "idle"
          /\ result' = [op |-> "open", tag |-> "Err", val |-> 0, errno |-> "ENOENT"]
          /\ OpenedThenClosed(wire', TCP_SYN, old'.host_port, old'.peer_port)
          /\ conns' = conns
    /\ HandshakeRefused("server_wait", TCP_ACK) =>
          /\ pc' = "listen"
          /\ result' = result
          /\ OpenedThenClosed(wire', TCP_SYN + TCP_ACK, conns[cur].host_port,
                              conns[cur].peer_port)
          /\ conns'[cur].state = "free"
    /\ (pc = "listen_read" /\ wire' # wire /\ wire'[1].res.tag = "Err") =>
          /\ pc' = "listen"
          /\ result' = result
          /\ OpenedThenClosed(wire', TCP_SYN + TCP_ACK, old'.host_port, old'.peer_port)
          /\ conns' = conns

\* C25: a client handshake that fails once the SYN has been handed to the IP
\* resource leaves, as the segments of that open, the SYN followed by exactly
\* one FIN|ACK, and open returns NoSuchEntity; a server handshake that fails
\* leaves the SYN|ACK followed by exactly one FIN|ACK, and the listener goes on.
C25_FailedHandshakeCloses == [][C25_Step]_vars

\* C25 witness: the listener goes on after a handshake that a segment other
\* than the final ACK ended, its SYN|ACK and FIN|ACK handed over
C25_Witness ==
    /\ pc = "listen" /\ op = "listen" /\ cur = 0
    /\ Len(wire) = 2
    /\ wire[1].res.tag = "Ok"
    /\ CtlBits(wire[1].dgram) = TCP_SYN + TCP_ACK
    /\ CtlBits(wire[2].dgram) = TCP_FIN + TCP_ACK
    /\ \A h \in Handles : conns[h].state = "free"


\* read drops what it holds and blocks again: nothing changed, nothing written
ReadDiscards ==
    /\ pc' = "read_wait"
    /\ got' = NoRead
    /\ conns' = conns
    /\ wire' = wire
    /\ result' = result
    /\ buf' = buf

\* C26 as stated: every port-matching segment whose control bits are not
\* exactly PSH|ACK is dropped
C26_OriginalStep ==
    (pc = "read_wait" /\ Matching /\ CtlBits(got.val) # TCP_PSH + TCP_ACK) => ReadDiscards

C26_Original == [][C26_OriginalStep]_vars

\* what C26 asks of one step, the flags read through the mask of the code
C26_Step ==
    /\ (pc = "read_wait" /\ Matching /\ Bits3(got.val) # TCP_PSH + TCP_ACK) => ReadDiscards
    /\ (pc = "read_wait" /\ pc' = "idle") =>
          \/ /\ got.tag = "Err"
             /\ result' = [op |-> "read", tag |-> "Err", val |-> 0, errno |-> got.errno]
          \/ /\ Matching /\ Bits3(got.val) = TCP_PSH + TCP_ACK
             /\ result' = [op |-> "read", tag |-> "Ok",
                           val |-> Min(cap, Len(PayloadOf(got.val))), errno |-> "none"]
    /\ (pc = "read_wait" /\ got.tag = "Ok" /\ result'.tag = "Err") => result' = result

\* C26: read does not see the peer close. A port-matching segment whose PSH,
\* SYN and ACK bits are not exactly PSH|ACK (FIN|ACK, RST, a bare ACK) is
\* dropped with no field changed and nothing written, and read blocks again;
\* read returns only on a port-matching segment with those bits PSH|ACK, with
\* the count of bytes copied, or on an error of the IP read, with that error.
\* FIN and RST are not looked at: no segment makes read return an error.
C26_NoPeerClose == [][C26_Step]_vars

\* C26 witness: read holds a FIN|ACK of its peer, nothing written, no result
C26_Witness ==
    /\ pc = "read_wait" /\ Matching
    /\ CtlBits(got.val) = TCP_FIN + TCP_ACK
    /\ wire = <<>> /\ result.tag = "none"


\* read returns with the segment it accepted
ReadReturns == pc = "read_wait" /\ pc' = "idle" /\ result'.tag = "Ok"

\* what read hands back and acknowledges, for payload P and a buffer of cap bytes
ReadTruncates(P) ==
    /\ result'.val = Min(cap, Len(P))
    /\ buf' = SubSeq(P, 1, Min(cap, Len(P)))
    /\ Len(wire') = 1
    /\ wire'[1].dgram.ack_num = conns'[cur].acknowledge
    /\ wire'[1].dgram.body = <<>>

\* C27 as stated: acknowledge advances by the payload length
C27_OriginalStep ==
    ReadReturns =>
        /\ ReadTruncates(PayloadOf(got.val))
        /\ conns'[cur].acknowledge =
              AddU32(conns[cur].acknowledge, ToU32(Len(PayloadOf(got.val))))

C27_Original == [][C27_OriginalStep]_vars

\* what C27 asks of one step
C27_Step ==
    ReadReturns =>
        /\ ReadTruncates(PayloadOf(got.val))
        /\ conns'[cur].acknowledge =
              AddU32(got.val.sequence, ToU32(Len(PayloadOf(got.val))))

\* C27: read, accepting a segment of sequence number s and n payload bytes into
\* a buffer of c bytes, returns min(c, n) and copies the first min(c, n) payload
\* bytes, while acknowledge becomes s + n and the ACK written acknowledges all
\* n bytes; every read, a later one as well, returns bytes of the segment it
\* accepted itself only, so the n - c bytes left are returned by none.
C27_ShortBuffer == [][C27_Step]_vars

\* C27 witness: a second read, after a call that acknowledged 10 bytes, took
\* 10 bytes into a buffer of one byte and acknowledged all 10
C27_Witness ==
    /\ pc = "idle" /\ op = "read" /\ calls = 2 /\ result.tag = "Ok"
    /\ old.acknowledge = ToU32(110)
    /\ cap = 1 /\ result.val = 1 /\ buf = <<1>>
    /\ Len(PayloadOf(got.val)) = 10
    /\ conns[cur].acknowledge = AddU32(got.val.sequence, ToU32(10))


\* C28: when write returns an error (of the IP write, of the IP read it waits
\* in, or BrokenPipe), sequence and acknowledge of the connection are what they
\* were before the call, and at most one data segment was handed to the IP
\* resource.
C28_FailedWrite ==
    (pc = "idle" /\ op = "write" /\ result.tag = "Err") =>
        /\ conns[cur].sequence = old.sequence
        /\ conns[cur].acknowledge = old.acknowledge
        /\ conns = [conns EXCEPT ![cur] = old]
        /\ Len(wire) <= 1
        /\ \A i \in 1 .. Len(wire) :
              /\ CtlBits(wire[i].dgram) = TCP_PSH + TCP_ACK
              /\ wire[i].dgram.body = buf

\* C28 witness: write ended with BrokenPipe on a reply whose numbers differ
\* from the connection's, which kept its own
C28_Witness ==
    /\ pc = "idle" /\ op = "write" /\ result.tag = "Err" /\ result.errno = "EPIPE"
    /\ got.tag = "Ok"
    /\ got.val.ack_num # old.sequence
    /\ got.val.sequence # old.acknowledge
    /\ conns[cur].sequence = old.sequence
    /\ conns[cur].acknowledge = old.acknowledge
    /\ Len(wire) = 1


\* the prefix of s before its first ':' or '/', all of s when it has neither
HostPart(s) == SubSeq(s, 1, Min(Find(s, ":", 1), Find(s, "/", 1)) - 1)

\* C29: parse_host returns, for every string, the prefix before the first ':'
\* or '/' (the whole string when it has neither), without the separator, and
\* does not fail.
C29_HostPrefix ==
    op = "parse_host" =>
        /\ pc = "idle"
        /\ result.tag = "Ok"
        /\ result.val = HostPart(url)

\* the position after the run of digits of s that starts at k
RECURSIVE DigitsEnd(_, _)
DigitsEnd(s, k) ==
    IF k <= Len(s) /\ IsDigit(SubSeq(s, k, k)) THEN DigitsEnd(s, k + 1) ELSE k

\* the digits that follow the first ':' of s
PortPart(s) == SubSeq(s, Find(s, ":", 1) + 1, DigitsEnd(s, Find(s, ":", 1) + 1) - 1)

\* s is <host>:<digits>, possibly with more after the digits
IsHostPort(s) ==
    /\ Find(s, ":", 1) > 1
    /\ Find(s, ":", 1) <= Len(s)
    /\ Find(s, "/", 1) > Find(s, ":", 1)
    /\ PortPart(s) # ""

\* C30: parse_port returns, for every string <host>:<digits> optionally
\* followed by other characters, exactly the digits that follow the ':', and
\* does not fail.
C30_PortDigits ==
    (op = "parse_port" /\ IsHostPort(url)) =>
        /\ pc = "idle"
        /\ result.tag = "Ok"
        /\ result.val = PortPart(url)

====
